---------------------------- MODULE Spec2Model ----------------------------
(***************************************************************************)
(* A model of the api-hub MCP server:                                      *)
(*   src/src/swagger.ts  extractToolsFromSwagger, generateInputSchema,     *)
(*                       resolveReferences (the Schema Extractor)          *)
(*   src/src/mcp.ts      fetchTool (the Request Dispatcher)                *)
(*   src/src/index.ts    getTools (memoised), the list-tools and the       *)
(*                       call-tool handlers                                *)
(*                                                                         *)
(* Representation.  A JSON object is a function whose domain is the set of *)
(* its own keys, so  k \in DOMAIN o  is Object.hasOwn(o, k) and an absent  *)
(* key is absent from the domain.  A string is a sequence of tokens (a     *)
(* token stands for one or more characters that the code never splits).   *)
(* Where the code depends on the insertion order of an object's keys the   *)
(* object carries that order as a sequence.                                *)
(***************************************************************************)
EXTENDS Naturals, Sequences, FiniteSets, TLC

VARIABLES
    doc,        \* the OpenAPI document the gateway serves for GET /docs/{apiId}/swagger
    extracted,  \* SpecExtract: result of extractToolsFromSwagger(apiId, doc)
    call,       \* SpecDispatch: the (tool, params) of one fetchTool call
    outcome,    \* SpecDispatch: what that fetchTool call did
    cache,      \* index.ts: radash memo cache of getTools, apiId -> promise
    docFetches, \* index.ts: number of GET /docs/{apiId}/swagger issued, per apiId
    reqs,       \* index.ts: the handler invocations, one record per request
    sent        \* index.ts: tool-invocation requests issued to the gateway

vars == <<doc, extracted, call, outcome, cache, docFetches, reqs, sent>>

-----------------------------------------------------------------------------
(* Bounds of the model *)

\* longest `parameters` array of an operation
MaxParams == 2
\* JavaScript call-stack depth at which resolveRef's recursion throws
\* RangeError; deeper than any acyclic nesting of the documents below
MaxCallDepth == 8
\* number of MCP requests the client sends
MaxRequests == 3

-----------------------------------------------------------------------------
(* JavaScript helpers *)

\* keys every plain object inherits from Object.prototype (a representative one)
ObjectPrototypeKeys == {"constructor"}

\* the value of an inherited key: a function, typeof v = "function"
InheritedFunction(k) == [inheritedFunction |-> k]

IsFunctionValue(v) == "inheritedFunction" \in DOMAIN v

\* the JavaScript `key in obj` operator: own keys and the prototype chain
In(key, obj) == key \in DOMAIN obj \/ key \in ObjectPrototypeKeys

\* obj[key] for a key with `key in obj`
Get(obj, key) == IF key \in DOMAIN obj THEN obj[key] ELSE InheritedFunction(key)

Null == [null |-> TRUE]

RECURSIVE Includes(_, _)
Includes(seq, x) ==
    IF seq = <<>> THEN FALSE
    ELSE IF Head(seq) = x THEN TRUE ELSE Includes(Tail(seq), x)

RECURSIVE Concat(_)
Concat(seqs) == IF seqs = <<>> THEN <<>> ELSE Head(seqs) \o Concat(Tail(seqs))

\* obj[key] = value, keeping the position of a key that already exists
SetKey(keys, key) == IF Includes(keys, key) THEN keys ELSE Append(keys, key)

Range(seq) == {seq[i] : i \in 1..Len(seq)}

-----------------------------------------------------------------------------
(* swagger.ts *)

API_GATEWAY_URL == <<"https://apis-hub.synergyshock.com", "/", "api">>

ParamType == [Query |-> "query", Path |-> "path", Body |-> "body"]

HttpMethods == <<"get", "post", "put", "delete", "patch">>

ToUpperCase(m) ==
    CASE m = "get" -> "GET"
      [] m = "post" -> "POST"
      [] m = "put" -> "PUT"
      [] m = "delete" -> "DELETE"
      [] m = "patch" -> "PATCH"
      [] OTHER -> m

Thrown(what) == [threw |-> what]

IsThrown(v) == "threw" \in DOMAIN v

\* keys of a schema object whose value is itself a schema object
SchemaKeys == {"items"}
\* keys of a schema object whose value maps names to schema objects
SchemaMapKeys == {"properties"}

\* lines 251-271: split the $ref on "/", drop the first element, walk the document
RECURSIVE Walk(_, _)
Walk(refObj, segments) ==
    IF segments = <<>> THEN refObj
    ELSE IF ~IsFunctionValue(refObj) /\ In(Head(segments), refObj)
         THEN Walk(Get(refObj, Head(segments)), Tail(segments))
         ELSE Thrown("not found")

ReferenceNotFound(ref) ==
    [type |-> "object", description |-> <<"Reference not found: ">> \o ref]

\* lines 241-286; depth is the depth of the JavaScript call stack
RECURSIVE resolveRef(_, _, _)
resolveRef(obj, swaggerData, depth) ==
    IF depth > MaxCallDepth THEN Thrown("RangeError")
    ELSE IF IsFunctionValue(obj) THEN obj
    ELSE IF "$ref" \in DOMAIN obj THEN
        LET target == Walk(swaggerData, Tail(obj["$ref"]))
        IN  IF IsThrown(target) THEN ReferenceNotFound(obj["$ref"])
            ELSE resolveRef(target, swaggerData, depth + 1)
    ELSE
        LET result == [key \in DOMAIN obj \ {"$schema"} |->
                IF key \in SchemaKeys THEN resolveRef(obj[key], swaggerData, depth + 1)
                ELSE IF key \in SchemaMapKeys THEN
                    LET inner == [p \in DOMAIN obj[key] |->
                                    resolveRef(obj[key][p], swaggerData, depth + 2)]
                    IN  IF \E p \in DOMAIN inner : IsThrown(inner[p])
                        THEN Thrown("RangeError") ELSE inner
                ELSE obj[key]]
        IN  IF \E key \in DOMAIN result :
                   key \in SchemaKeys \cup SchemaMapKeys /\ IsThrown(result[key])
            THEN Thrown("RangeError") ELSE result

resolveReferences(schema, swaggerData) == resolveRef(schema, swaggerData, 1)

EmptyObject == [k \in {} |-> k]

\* @openapi-contrib/openapi-schema-to-json-schema (external library, called at
\* line 176): OpenAPI-only keywords are removed, `nullable: true` turns the
\* type into the array [type, "null"], `required` keeps only declared
\* properties and is deleted when empty, an empty `properties` is deleted.
\* A converted `type` is held as the sequence of its type names: <<t>> for
\* the string t, <<t, "null">> for the array.
NotSupported ==
    {"nullable", "discriminator", "readOnly", "writeOnly", "xml",
     "externalDocs", "example", "deprecated"}

RECURSIVE convertSchema(_)
convertSchema(schema) ==
    LET props ==
            IF "properties" \in DOMAIN schema
            THEN [p \in DOMAIN schema.properties |-> convertSchema(schema.properties[p])]
            ELSE EmptyObject
        required ==
            IF "properties" \in DOMAIN schema /\ "required" \in DOMAIN schema
            THEN SelectSeq(schema.required, LAMBDA r : r \in DOMAIN props)
            ELSE IF "required" \in DOMAIN schema THEN schema.required ELSE <<>>
        dropped ==
            NotSupported
            \cup (IF "properties" \in DOMAIN schema /\ DOMAIN props = {}
                  THEN {"properties"} ELSE {})
            \cup (IF "properties" \in DOMAIN schema /\ required = <<>>
                  THEN {"required"} ELSE {})
    IN  [key \in DOMAIN schema \ dropped |->
            CASE key = "properties" -> props
              [] key = "required" -> required
              [] key = "items" -> convertSchema(schema.items)
              [] key = "type" ->
                    IF "nullable" \in DOMAIN schema /\ schema.nullable
                    THEN <<schema.type, "null">> ELSE <<schema.type>>
              [] OTHER -> schema[key]]

openapiSchemaToJsonSchema(schema) ==
    ("$schema" :> "http://json-schema.org/draft-04/schema#") @@ convertSchema(schema)

\* lines 139-161, one iteration of the loop over operation.parameters
ParameterStep(schema, param, swaggerData) ==
    IF IsThrown(schema) THEN schema
    ELSE
    LET resolved ==
            resolveReferences(
                IF "schema" \in DOMAIN param THEN param.schema ELSE EmptyObject,
                swaggerData)
        hasName == "name" \in DOMAIN param
        isRequired == "required" \in DOMAIN param /\ param.required
        tagged ==
            ("paramType" :>
                (IF "in" \in DOMAIN param THEN param["in"] ELSE ParamType.Query))
            @@ resolved
        described ==
            IF "description" \in DOMAIN param
            THEN ("description" :> param.description) @@ tagged ELSE tagged
    IN  IF IsThrown(resolved) THEN resolved
        ELSE [properties |->
                 IF hasName THEN (param.name :> described) @@ schema.properties
                 ELSE schema.properties,
              keys |-> IF hasName THEN SetKey(schema.keys, param.name) ELSE schema.keys,
              required |->
                 IF isRequired /\ hasName THEN Append(schema.required, param.name)
                 ELSE schema.required,
              constraints |-> schema.constraints]

RECURSIVE ParameterLoop(_, _, _)
ParameterLoop(schema, params, swaggerData) ==
    IF params = <<>> THEN schema
    ELSE ParameterLoop(ParameterStep(schema, Head(params), swaggerData),
                       Tail(params), swaggerData)

\* lines 196-200, the loop over convertedBodySchema.required
RECURSIVE PushRequired(_, _)
PushRequired(required, names) ==
    IF names = <<>> THEN required
    ELSE PushRequired(
            IF ~Includes(required, Head(names)) THEN Append(required, Head(names))
            ELSE required,
            Tail(names))

RECURSIVE SetKeys(_, _)
SetKeys(keys, names) ==
    IF names = <<>> THEN keys ELSE SetKeys(SetKey(keys, Head(names)), Tail(names))

ConstraintTypes == {"anyOf", "allOf", "oneOf", "not"}

\* lines 165-220
RequestBodyStep(schema, operation, swaggerData) ==
    IF IsThrown(schema) THEN schema
    ELSE IF ~("requestBody" \in DOMAIN operation
              /\ "content" \in DOMAIN operation.requestBody) THEN schema
    ELSE IF Len(operation.requestBody.content) = 0 THEN schema
    ELSE IF "schema" \notin DOMAIN operation.requestBody.content[1].value THEN schema
    ELSE
    LET bodySchema ==
            resolveReferences(operation.requestBody.content[1].value.schema, swaggerData)
        convertedBodySchema == [key \in DOMAIN openapiSchemaToJsonSchema(bodySchema)
                                   \ {"$schema"} |-> openapiSchemaToJsonSchema(bodySchema)[key]]
        bodyRequired == "required" \in DOMAIN operation.requestBody
                        /\ operation.requestBody.required
    IN  IF IsThrown(bodySchema) THEN bodySchema
        ELSE IF "type" \in DOMAIN convertedBodySchema
                /\ convertedBodySchema.type = <<"object">>
                /\ "properties" \in DOMAIN convertedBodySchema
        THEN [properties |->
                 [p \in DOMAIN convertedBodySchema.properties |->
                     ("paramType" :> ParamType.Body) @@ convertedBodySchema.properties[p]]
                 @@ schema.properties,
              keys |-> SetKeys(schema.keys, convertedBodySchema.keys),
              required |->
                 IF "required" \in DOMAIN convertedBodySchema
                 THEN PushRequired(schema.required, convertedBodySchema.required)
                 ELSE schema.required,
              constraints |->
                 [c \in ConstraintTypes \cap DOMAIN convertedBodySchema |->
                     convertedBodySchema[c]]]
        ELSE [properties |->
                 ("_body" :> (("paramType" :> ParamType.Body) @@ convertedBodySchema))
                 @@ schema.properties,
              keys |-> SetKey(schema.keys, "_body"),
              required |->
                 IF bodyRequired THEN Append(schema.required, "_body")
                 ELSE schema.required,
              constraints |-> schema.constraints]

\* the InputSchema object: `required` and the constraint keys are own keys
\* only when set
InputSchema(schema) ==
    IF IsThrown(schema) THEN schema
    ELSE [type |-> "object", properties |-> schema.properties, keys |-> schema.keys]
         @@ schema.constraints
         @@ (IF schema.required = <<"deleted">> THEN EmptyObject
             ELSE [required |-> schema.required])

\* lines 222-225
DeleteEmptyRequired(schema) ==
    IF IsThrown(schema) THEN schema
    ELSE IF schema.required = <<>> THEN [schema EXCEPT !.required = <<"deleted">>]
    ELSE schema

\* lines 131-135 and 101-105
NewSchema == [properties |-> EmptyObject, keys |-> <<>>, required |-> <<>>,
              constraints |-> EmptyObject]

\* lines 130-228
generateInputSchema(operation, swaggerData) ==
    InputSchema(DeleteEmptyRequired(
        RequestBodyStep(
            IF "parameters" \in DOMAIN operation
            THEN ParameterLoop(NewSchema, operation.parameters, swaggerData)
            ELSE NewSchema,
            operation, swaggerData)))

IsAlphaNumeric(token) == token \notin {"/", "{", "}", " ", "-"}

\* path.replace(/[^a-zA-Z0-9]/g, "_")
Sanitize(path) == [i \in 1..Len(path) |-> IF IsAlphaNumeric(path[i]) THEN path[i] ELSE "_"]

\* lines 96-119, the tool of one operation
ToolOf(apiId, path, method, operation, swaggerData) ==
    LET inputSchema ==
            IF "parameters" \in DOMAIN operation \/ "requestBody" \in DOMAIN operation
            THEN generateInputSchema(operation, swaggerData)
            ELSE [type |-> "object", properties |-> EmptyObject, keys |-> <<>>,
                  required |-> <<>>]
    IN  IF IsThrown(inputSchema) THEN inputSchema
        ELSE [name |->
                 IF "operationId" \in DOMAIN operation THEN operation.operationId
                 ELSE <<method, "_">> \o Sanitize(path),
              description |->
                 IF "description" \in DOMAIN operation THEN operation.description
                 ELSE IF "summary" \in DOMAIN operation THEN operation.summary
                 ELSE <<ToUpperCase(method), " ">> \o path,
              endpoint |-> API_GATEWAY_URL \o <<"/", "use", "/", apiId, "/">> \o path,
              method |-> ToUpperCase(method),
              inputSchema |-> inputSchema]

\* lines 90-120, the loop over the keys of one path item
RECURSIVE MethodLoop(_, _, _, _, _)
MethodLoop(tools, apiId, path, entries, swaggerData) ==
    IF IsThrown(tools) \/ entries = <<>> THEN tools
    ELSE LET method == Head(entries).key
             operation == Head(entries).value
         IN  IF Includes(HttpMethods, method) /\ operation # Null
             THEN LET tool == ToolOf(apiId, path, method, operation, swaggerData)
                  IN  MethodLoop(IF IsThrown(tool) THEN tool
                                 ELSE [tools |-> Append(tools.tools, tool)],
                                 apiId, path, Tail(entries), swaggerData)
             ELSE MethodLoop(tools, apiId, path, Tail(entries), swaggerData)

\* lines 86-122, the loop over the paths
RECURSIVE PathLoop(_, _, _, _)
PathLoop(tools, apiId, paths, swaggerData) ==
    IF IsThrown(tools) \/ paths = <<>> THEN tools
    ELSE PathLoop(MethodLoop(tools, apiId, Head(paths).path, Head(paths).item, swaggerData),
                  apiId, Tail(paths), swaggerData)

\* lines 81-125: the tools, or the exception the call ends with
extractToolsFromSwagger(apiId, swaggerData) ==
    PathLoop([tools |-> <<>>], apiId,
             IF "paths" \in DOMAIN swaggerData THEN swaggerData.paths ELSE <<>>,
             swaggerData)
-----------------------------------------------------------------------------
(* The OpenAPI documents the gateway may serve *)

apiId == "star-wars-api"

Ref(name) == "$ref" :> <<"#", "components", "schemas", name>>

Entry(k, v) == [key |-> k, value |-> v]

Json(schema) == Entry("application/json", schema)

Components ==
    [schemas |->
        [Foo |-> [type |-> "string"],
         Bar |-> Ref("Foo"),
         Node |-> [type |-> "object", keys |-> <<"child">>,
                   properties |-> [child |-> Ref("Node")]],
         Pet |-> [type |-> "object", keys |-> <<"x", "id">>,
                  properties |-> [x |-> [type |-> "integer", nullable |-> TRUE],
                                  id |-> Ref("Bar")],
                  required |-> <<"x", "id", "x">>]]]

ParamChoices ==
    { [name |-> "id", in |-> "path", required |-> TRUE, schema |-> [type |-> "integer"]],
      [name |-> "id", in |-> "query", required |-> TRUE, schema |-> Ref("Foo")],
      [name |-> "q", schema |-> Ref("Missing"), description |-> <<"search">>],
      [name |-> "X-Token", in |-> "header", required |-> TRUE, schema |-> Ref("Bar")],
      [in |-> "query", required |-> TRUE, schema |-> [type |-> "string"]],
      [name |-> "constructor", in |-> "query", required |-> TRUE],
      [name |-> "n", in |-> "query", schema |-> Ref("Node")],
      [name |-> "c", in |-> "query", schema |-> Ref("constructor")],
      [name |-> "_body", in |-> "query", required |-> TRUE,
       schema |-> ("$schema" :> "http://json-schema.org/draft-04/schema#")
                  @@ [type |-> "string"]] }

ParamLists == UNION {[1..n -> ParamChoices] : n \in 0..MaxParams}

Bodies ==
    { [content |-> <<>>],
      [description |-> <<"no content">>],
      [content |-> <<Json(EmptyObject)>>],
      [content |-> <<Json([schema |->
            [type |-> "object", keys |-> <<"x", "id">>,
             properties |-> [x |-> [type |-> "integer"], id |-> [type |-> "string"]],
             required |-> <<"x", "id", "x">>]])>>],
      [required |-> TRUE,
       content |-> <<Json([schema |-> [type |-> "array", items |-> Ref("Foo")]]),
                     Entry("application/xml", [schema |-> Ref("Pet")])>>],
      [content |-> <<Json([schema |-> Ref("Pet")])>>],
      [required |-> TRUE, content |-> <<Json([schema |-> Ref("Missing")])>>],
      [content |-> <<Json([schema |->
            [type |-> "object", nullable |-> TRUE, keys |-> <<"x">>,
             properties |-> [x |-> [type |-> "integer"]]]])>>],
      [content |-> <<Json([schema |-> Ref("Node")])>>] }

Operations ==
    { p @@ b : p \in {EmptyObject} \cup {[parameters |-> l] : l \in ParamLists},
               b \in {EmptyObject} \cup {[requestBody |-> r] : r \in Bodies} }

PersonPath == <<"/", "people", "/", "{", "id", "}">>
PeoplePath == <<"/", "people">>

\* documents with one operation, of every shape
DeepDocs ==
    { [paths |-> <<[path |-> PersonPath, item |-> <<Entry(m, op)>>]>>] @@ c :
        m \in {"get", "post"}, op \in Operations,
        c \in {EmptyObject, [components |-> Components]} }

OperationChoices ==
    { Null,
      EmptyObject,
      [operationId |-> <<"getPerson">>,
       parameters |-> <<[name |-> "id", in |-> "path", required |-> TRUE,
                         schema |-> [type |-> "integer"]]>>] }

\* the path items: each of get, delete absent, null or an operation, with or
\* without a key that is no method
PathItems ==
    { Concat(<<g, d, o>>) :
        g \in {<<>>} \cup {<<Entry("get", op)>> : op \in OperationChoices},
        d \in {<<>>} \cup {<<Entry("delete", op)>> : op \in OperationChoices},
        o \in {<<>>, <<Entry("parameters", EmptyObject)>>} }

\* documents with up to two paths
WideDocs ==
    { EmptyObject, [paths |-> <<>>] }
    \cup { [paths |-> <<[path |-> PeoplePath, item |-> i]>>] : i \in PathItems }
    \cup { [paths |-> <<[path |-> PeoplePath, item |-> i],
                        [path |-> PersonPath, item |-> j]>>] :
             i \in PathItems, j \in PathItems }

Docs == DeepDocs \cup WideDocs

-----------------------------------------------------------------------------
(* SpecExtract: extractToolsFromSwagger applied to every document *)

Idle == [state |-> "idle"]

InitExtract ==
    /\ doc \in Docs
    /\ extracted = [state |-> "pending"]
    /\ call = Idle
    /\ outcome = Idle
    /\ cache = EmptyObject
    /\ docFetches = 0
    /\ reqs = <<>>
    /\ sent = <<>>

Extract ==
    /\ extracted.state = "pending"
    /\ extracted' = [state |-> "done", result |-> extractToolsFromSwagger(apiId, doc)]
    /\ UNCHANGED <<doc, call, outcome, cache, docFetches, reqs, sent>>

NextExtract == Extract

SpecExtract == InitExtract /\ [][NextExtract]_vars
-----------------------------------------------------------------------------
(* mcp.ts: fetchTool.  The call-tool handler of index.ts repeats lines 6-51 *)
(* as its lines 82-128.                                                     *)

\* an argument value v, held with the tokens of String(v)
Value(tokens) == [str |-> tokens]

\* String(value); an inherited key reads as a function of Object.prototype
String(value) ==
    IF IsFunctionValue(value) THEN <<"function () { [native code] }">> ELSE value.str

\* JSON.stringify of the body object: a function-valued key is left out
JSONStringify(obj) ==
    [json |-> [k \in {n \in DOMAIN obj : ~IsFunctionValue(obj[n])} |-> obj[k]]]

\* the path percent-encode set of the URL parser, per token
EncodeToken(token) ==
    CASE token = "{" -> "%7B"
      [] token = "}" -> "%7D"
      [] token = " " -> "%20"
      [] OTHER -> token

EncodePath(tokens) == [i \in 1..Len(tokens) |-> EncodeToken(tokens[i])]

\* new URL(endpoint): the origin, the encoded pathname, the search parameters
NewURL(endpoint) ==
    [origin |-> Head(endpoint), pathname |-> EncodePath(Tail(endpoint)), search |-> <<>>]

\* index of the first occurrence of pattern in str, 0 when there is none
IndexOf(str, pattern) ==
    LET hits == {i \in 1..Len(str) :
                    /\ i + Len(pattern) - 1 <= Len(str)
                    /\ SubSeq(str, i, i + Len(pattern) - 1) = pattern}
    IN  IF hits = {} THEN 0 ELSE CHOOSE i \in hits : \A j \in hits : i <= j

\* the replacement patterns of String.prototype.replace: $& is the matched
\* substring, $$ is a dollar sign
RECURSIVE ExpandReplacement(_, _)
ExpandReplacement(replacement, matched) ==
    IF replacement = <<>> THEN <<>>
    ELSE (CASE Head(replacement) = "$&" -> matched
            [] Head(replacement) = "$$" -> <<"$">>
            [] OTHER -> <<Head(replacement)>>)
         \o ExpandReplacement(Tail(replacement), matched)

\* str.replace(pattern, replacement) with a string pattern: the first
\* occurrence only
Replace(str, pattern, replacement) ==
    LET i == IndexOf(str, pattern)
    IN  IF i = 0 THEN str
        ELSE SubSeq(str, 1, i - 1)
             \o ExpandReplacement(replacement, pattern)
             \o SubSeq(str, i + Len(pattern), Len(str))

\* mcp.ts line 29: url.pathname = url.pathname.replace(`%7B${paramName}%7D`, String(value))
SubstitutePath(pathname, paramName, value) ==
    EncodePath(Replace(pathname, <<"%7B", paramName, "%7D">>, String(value)))

\* mcp.ts lines 14-37, one iteration of the loop over inputSchema.properties;
\* acc is the url and the requestBody so far, or the error thrown
ArgumentStep(acc, tool, requestArgs, paramName) ==
    IF IsThrown(acc) THEN acc
    ELSE IF ~In(paramName, requestArgs) THEN
        IF "required" \in DOMAIN tool.inputSchema
           /\ Includes(tool.inputSchema.required, paramName)
        THEN Thrown(<<"Missing required argument: ", paramName>>)
        ELSE acc
    ELSE
        LET param == tool.inputSchema.properties[paramName]
            paramType == IF "paramType" \in DOMAIN param THEN param.paramType
                         ELSE ParamType.Query
            value == Get(requestArgs, paramName)
        IN  CASE paramType = ParamType.Path ->
                    [acc EXCEPT !.url.pathname = SubstitutePath(@, paramName, value)]
              [] paramType = ParamType.Query ->
                    [acc EXCEPT !.url.search = Append(@, <<paramName, String(value)>>)]
              [] paramType = ParamType.Body ->
                    [acc EXCEPT !.requestBody = (paramName :> value) @@ @]
              [] OTHER -> acc

RECURSIVE ArgumentLoop(_, _, _, _)
ArgumentLoop(acc, tool, requestArgs, names) ==
    IF names = <<>> THEN acc
    ELSE ArgumentLoop(ArgumentStep(acc, tool, requestArgs, Head(names)),
                      tool, requestArgs, Tail(names))

\* a dispatcher that forgets DELETE when it suppresses the body
HasBodyGetOnly(method) == method # "GET"

\* mcp.ts lines 49-51: whether requestInit gets a body
HasBody(method) == method # "GET" /\ method # "DELETE"

\* mcp.ts lines 6-51: the request fetchTool hands to fetch, or the error thrown
BuildRequest(tool, params) ==
    LET acc == ArgumentLoop([url |-> NewURL(tool.endpoint), requestBody |-> EmptyObject],
                            tool, params, tool.inputSchema.keys)
    IN  IF IsThrown(acc) THEN acc
        ELSE [url |-> acc.url,
              init |-> [method |-> tool.method,
                        headers |-> {"Authorization", "Content-Type"}]
                       @@ (IF HasBody(tool.method)
                           THEN [body |-> JSONStringify(acc.requestBody)]
                           ELSE EmptyObject)]

\* mcp.ts lines 3-54: fetch is called with the request unless building it threw
fetchTool(tool, params) ==
    LET request == BuildRequest(tool, params)
    IN  IF IsThrown(request) THEN [state |-> "threw", error |-> request.threw]
        ELSE [state |-> "fetched", request |-> request]
-----------------------------------------------------------------------------
(* SpecDispatch: fetchTool applied to the tools of small documents and to *)
(* every argument mapping over their fields                                *)

IdPath == [name |-> "id", in |-> "path", required |-> TRUE, schema |-> [type |-> "integer"]]

NoteBody ==
    [content |-> <<Json([schema |->
        [type |-> "object", keys |-> <<"x", "note">>,
         properties |-> [x |-> [type |-> "integer"], note |-> [type |-> "string"]],
         required |-> <<"x">>]])>>]

DispatchOperations ==
    { EmptyObject,
      [parameters |-> <<IdPath, [name |-> "q", schema |-> [type |-> "string"]]>>],
      [parameters |-> <<IdPath>>, requestBody |-> NoteBody],
      [parameters |-> <<[name |-> "constructor", in |-> "query", required |-> TRUE]>>],
      [requestBody |-> [required |-> TRUE,
                        content |-> <<Json([schema |-> [type |-> "array"]])>>]],
      [parameters |-> <<[name |-> "X-Token", in |-> "header", required |-> TRUE], IdPath>>] }

FriendPath == PersonPath \o <<"/", "friends", "/", "{", "id", "}">>

DispatchDocs ==
    { [paths |-> <<[path |-> p, item |-> <<Entry(m, op)>>]>>] :
        p \in {PersonPath, FriendPath}, m \in Range(HttpMethods), op \in DispatchOperations }

ArgValues == {Value(<<"42">>), Value(<<"$&">>)}

\* every argument mapping over the fields of a tool
ArgumentMappings(tool) ==
    UNION {[S -> ArgValues] : S \in SUBSET DOMAIN tool.inputSchema.properties}

InitDispatch ==
    /\ doc \in DispatchDocs
    /\ \E tool \in Range(extractToolsFromSwagger(apiId, doc).tools) :
         \E params \in ArgumentMappings(tool) :
            call = [tool |-> tool, params |-> params]
    /\ outcome = Idle
    /\ extracted = Idle
    /\ cache = EmptyObject
    /\ docFetches = 0
    /\ reqs = <<>>
    /\ sent = <<>>

FetchTool ==
    /\ outcome = Idle
    /\ outcome' = fetchTool(call.tool, call.params)
    /\ UNCHANGED <<doc, extracted, call, cache, docFetches, reqs, sent>>

NextDispatch == FetchTool

SpecDispatch == InitDispatch /\ [][NextDispatch]_vars
-----------------------------------------------------------------------------
(* index.ts: the server *)

\* the documents the gateway may hold for star-wars-api: one with two
\* operations, one whose parameter schema refers to itself, an empty one
ServedDocs ==
    { [paths |-> <<[path |-> PersonPath,
                    item |-> <<Entry("get", [operationId |-> <<"getPerson">>,
                                             parameters |-> <<IdPath>>])>>],
                   [path |-> PeoplePath,
                    item |-> <<Entry("post", [operationId |-> <<"createPerson">>,
                                              requestBody |-> NoteBody])>>]>>],
      [paths |-> <<[path |-> PeoplePath,
                    item |-> <<Entry("get", [operationId |-> <<"getPerson">>,
                                             parameters |-> <<[name |-> "n",
                                                               schema |-> Ref("Node")]>>])>>]>>,
       components |-> Components],
      EmptyObject }

\* the params of the call-tool requests the client may send: a call with its
\* required argument, without it, with a body field, of an unknown tool, and
\* one without an argument mapping
CallParams ==
    { [name |-> <<"getPerson">>, arguments |-> [id |-> Value(<<"42">>)]],
      [name |-> <<"getPerson">>, arguments |-> EmptyObject],
      [name |-> <<"createPerson">>, arguments |-> [x |-> Value(<<"42">>)]],
      [name |-> <<"unknown">>, arguments |-> EmptyObject],
      [name |-> <<"getPerson">>] }

\* a cache that holds the awaited value instead of the promise: a call finds
\* nothing while the first fetch is in flight
CacheHitSettledOnly(key) == key \in DOMAIN cache /\ cache[key].state # "pending"

\* radash memo, line 40: a call with a key the cache holds returns the cached
\* promise (ttl: Infinity never expires)
CacheHit(key) == key \in DOMAIN cache

\* lines 35-40, a call of getTools: on a miss the async function runs to its
\* first await, which issues the fetch, and its promise is cached
GetTools(key) ==
    IF CacheHit(key)
    THEN UNCHANGED <<cache, docFetches>>
    ELSE /\ docFetches' = docFetches + 1
         /\ cache' = (key :> [state |-> "pending"]) @@ cache

\* lines 42-43: a list-tools request arrives and the handler awaits getTools
ListTools ==
    /\ Len(reqs) < MaxRequests
    /\ GetTools(apiId)
    /\ reqs' = Append(reqs, [kind |-> "list", pc |-> "awaitTools"])
    /\ UNCHANGED <<doc, extracted, call, outcome, sent>>

\* lines 56-57: a call-tool request arrives and the handler awaits getTools
CallTool ==
    /\ Len(reqs) < MaxRequests
    /\ GetTools(apiId)
    /\ \E params \in CallParams :
         reqs' = Append(reqs, [kind |-> "call", pc |-> "awaitTools", params |-> params])
    /\ UNCHANGED <<doc, extracted, call, outcome, sent>>

\* lines 37-39: the gateway answers the document fetch, or the fetch fails,
\* or the body is no JSON; the promise of getTools settles
DocumentResponse ==
    /\ apiId \in DOMAIN cache
    /\ cache[apiId].state = "pending"
    /\ \E response \in {"json", "network fault", "malformed body"} :
         cache' = [cache EXCEPT ![apiId] =
            IF response # "json" THEN [state |-> "rejected", reason |-> response]
            ELSE LET tools == extractToolsFromSwagger(apiId, doc)
                 IN  IF IsThrown(tools) THEN [state |-> "rejected", reason |-> tools.threw]
                     ELSE [state |-> "fulfilled", value |-> tools.tools]]
    /\ UNCHANGED <<doc, extracted, call, outcome, docFetches, reqs, sent>>

Settled == apiId \in DOMAIN cache /\ cache[apiId].state # "pending"

Finish(i, result) == reqs' = [reqs EXCEPT ![i] = [@ EXCEPT !.pc = "done"] @@ [result |-> result]]

ErrorContent(text) == [isError |-> TRUE, content |-> text]

\* lines 43-53: the list-tools handler resumes; a rejected getTools leaves
\* the handler as an exception
ListToolsResume(i) ==
    /\ reqs[i].kind = "list" /\ reqs[i].pc = "awaitTools" /\ Settled
    /\ Finish(i, IF cache[apiId].state = "rejected" THEN Thrown(cache[apiId].reason)
                 ELSE [tools |-> [t \in 1..Len(cache[apiId].value) |->
                                    [name |-> cache[apiId].value[t].name,
                                     description |-> cache[apiId].value[t].description,
                                     inputSchema |-> [type |-> "object",
                                                      properties |-> EmptyObject]]]])
    /\ UNCHANGED <<doc, extracted, call, outcome, cache, docFetches, sent>>

\* line 58 and 70: new Map(...).get(name), the last tool of that name
MapGet(tools, name) ==
    LET hits == {t \in 1..Len(tools) : tools[t].name = name}
    IN  IF hits = {} THEN Null ELSE tools[CHOOSE t \in hits : \A u \in hits : u <= t]

\* line 57: the await of getTools is outside the try block
CallToolRejected(i) ==
    /\ reqs[i].kind = "call" /\ reqs[i].pc = "awaitTools" /\ Settled
    /\ cache[apiId].state = "rejected"
    /\ Finish(i, Thrown(cache[apiId].reason))
    /\ UNCHANGED <<doc, extracted, call, outcome, cache, docFetches, sent>>

\* lines 58-79: no arguments, or no tool of that name
CallToolRefused(i) ==
    /\ reqs[i].kind = "call" /\ reqs[i].pc = "awaitTools" /\ Settled
    /\ cache[apiId].state = "fulfilled"
    /\ \/ /\ "arguments" \notin DOMAIN reqs[i].params
          /\ Finish(i, ErrorContent(<<"Error: Arguments are required">>))
       \/ /\ "arguments" \in DOMAIN reqs[i].params
          /\ MapGet(cache[apiId].value, reqs[i].params.name) = Null
          /\ Finish(i, ErrorContent(<<"Error: Unknown tool: ">> \o reqs[i].params.name))
    /\ UNCHANGED <<doc, extracted, call, outcome, cache, docFetches, sent>>

\* lines 82-130 and 146-157: the request is built as in fetchTool; the error
\* of a missing required argument is caught, otherwise fetch is called.
\* Nothing in the try block raises a ZodError, so line 148 never rethrows.
CallToolDispatch(i) ==
    /\ reqs[i].kind = "call" /\ reqs[i].pc = "awaitTools" /\ Settled
    /\ cache[apiId].state = "fulfilled"
    /\ "arguments" \in DOMAIN reqs[i].params
    /\ MapGet(cache[apiId].value, reqs[i].params.name) # Null
    /\ LET request == BuildRequest(MapGet(cache[apiId].value, reqs[i].params.name),
                                   reqs[i].params.arguments)
       IN  \/ /\ IsThrown(request)
              /\ Finish(i, ErrorContent(<<"Error: ">> \o request.threw))
              /\ sent' = sent
           \/ /\ ~IsThrown(request)
              /\ reqs' = [reqs EXCEPT ![i].pc = "awaitFetch"]
              /\ sent' = Append(sent, request)
    /\ UNCHANGED <<doc, extracted, call, outcome, cache, docFetches>>

\* lines 130-157: the gateway answers the tool request with a 2xx or another
\* status, or the fetch fails and the error is caught
ToolResponse(i) ==
    /\ reqs[i].pc = "awaitFetch"
    /\ \E response \in {"ok", "not ok", "network fault"} :
         Finish(i, CASE response = "ok" -> [content |-> <<"responseBody">>]
                     [] response = "not ok" ->
                            ErrorContent(<<"Error: ", "status", "responseBody">>)
                     [] OTHER -> ErrorContent(<<"Error: ", response>>))
    /\ UNCHANGED <<doc, extracted, call, outcome, cache, docFetches, sent>>

Init ==
    /\ doc \in ServedDocs
    /\ extracted = Idle
    /\ call = Idle
    /\ outcome = Idle
    /\ cache = EmptyObject
    /\ docFetches = 0
    /\ reqs = <<>>
    /\ sent = <<>>

Next ==
    \/ ListTools
    \/ CallTool
    \/ DocumentResponse
    \/ \E i \in 1..Len(reqs) : ListToolsResume(i)
    \/ \E i \in 1..Len(reqs) : CallToolRejected(i)
    \/ \E i \in 1..Len(reqs) : CallToolRefused(i)
    \/ \E i \in 1..Len(reqs) : CallToolDispatch(i)
    \/ \E i \in 1..Len(reqs) : ToolResponse(i)

Spec == Init /\ [][Next]_vars
-----------------------------------------------------------------------------
(* The claims *)

Occurs(str, pattern) == IndexOf(str, pattern) # 0

\* the tools extractToolsFromSwagger returned, none while pending or when it threw
ExtractedTools ==
    IF extracted.state = "done" /\ ~IsThrown(extracted.result)
    THEN extracted.result.tools ELSE <<>>

\* C1: getTools issues at most one GET /docs/{apiId}/swagger for the life of
\* the process: none before the first request, and exactly one however many
\* list-tools and call-tool requests have started, concurrently or later.
C1_AtMostOneDocumentFetch == docFetches = (IF reqs = <<>> THEN 0 ELSE 1)

\* C1 witness: a list-tools and a call-tool request both await getTools while
\* its single fetch is still in flight.
C1_ConcurrentFirstCallers ==
    /\ docFetches = 1
    /\ cache[apiId].state = "pending"
    /\ \E i, j \in 1..Len(reqs) :
         /\ reqs[i].kind = "list" /\ reqs[i].pc = "awaitTools"
         /\ reqs[j].kind = "call" /\ reqs[j].pc = "awaitTools"

\* C2: when a field named in inputSchema.required is absent from the argument
\* mapping, fetchTool fails with 'Missing required argument' naming an absent
\* required field, and issues no request.
C2_MissingRequiredFails ==
    (/\ outcome.state # "idle"
     /\ "required" \in DOMAIN call.tool.inputSchema
     /\ \E n \in Range(call.tool.inputSchema.required) : n \notin DOMAIN call.params)
    => /\ outcome.state = "threw"
       /\ \E n \in Range(call.tool.inputSchema.required) \ DOMAIN call.params :
            outcome.error = <<"Missing required argument: ", n>>

\* C3: a call-tool request never ends by throwing out of the handler: it
\* returns success content or error content, also when a fetch made while
\* serving it fails.
C3_CallToolNeverThrows ==
    \A i \in 1..Len(reqs) :
        (reqs[i].kind = "call" /\ reqs[i].pc = "done") => ~IsThrown(reqs[i].result)

\* C4: when the path template holds {name} for a path-tagged field and the
\* arguments supply it, the URL of the request holds the string form of the
\* value and no placeholder for that field, encoded or literal.
C4_PathPlaceholderSubstituted ==
    outcome.state = "fetched" =>
        \A n \in DOMAIN call.params :
            (/\ "paramType" \in DOMAIN call.tool.inputSchema.properties[n]
             /\ call.tool.inputSchema.properties[n].paramType = ParamType.Path
             /\ Occurs(call.tool.endpoint, <<"{", n, "}">>))
            => /\ Occurs(outcome.request.url.pathname, String(call.params[n]))
               /\ ~Occurs(outcome.request.url.pathname, <<"%7B", n, "%7D">>)
               /\ ~Occurs(outcome.request.url.pathname, <<"{", n, "}">>)

\* C5: every key of inputSchema.properties of every extracted tool carries a
\* paramType that is one of path, query or body.
C5_ParamTypeIsPathQueryOrBody ==
    \A t \in Range(ExtractedTools) :
        \A n \in DOMAIN t.inputSchema.properties :
            /\ "paramType" \in DOMAIN t.inputSchema.properties[n]
            /\ t.inputSchema.properties[n].paramType
                  \in {ParamType.Path, ParamType.Query, ParamType.Body}

\* C6: the inputSchema of an extracted tool has no `required` attribute or a
\* non-empty one, also for an operation without parameters and request body.
C6_RequiredNeverEmpty ==
    \A t \in Range(ExtractedTools) :
        "required" \in DOMAIN t.inputSchema => t.inputSchema.required # <<>>

\* the (path, method) pairs of the document: a key among get, post, put,
\* delete, patch that a path's entry holds with an operation (a key whose
\* value is null holds none)
MethodPairs ==
    IF "paths" \notin DOMAIN doc THEN {}
    ELSE {pm \in (1..Len(doc.paths)) \X Range(HttpMethods) :
            \E e \in Range(doc.paths[pm[1]].item) : e.key = pm[2] /\ e.value # Null}

\* C7: extract produces exactly one Tool for each (path, method) pair present
\* in the document and nothing else; the tool has the uppercased verb and the
\* endpoint built from the path.
C7_OneToolPerPathAndMethod ==
    extracted.state = "done" =>
        /\ ~IsThrown(extracted.result)
        /\ Len(ExtractedTools) = Cardinality(MethodPairs)
        /\ \A pm \in MethodPairs :
             Cardinality({i \in 1..Len(ExtractedTools) :
                /\ ExtractedTools[i].method = ToUpperCase(pm[2])
                /\ ExtractedTools[i].endpoint =
                      API_GATEWAY_URL \o <<"/", "use", "/", apiId, "/">>
                      \o doc.paths[pm[1]].path}) = 1

\* the schema fragments extraction resolves: the schema of every parameter
\* and of the first content type of every request body
Fragments ==
    IF "paths" \notin DOMAIN doc THEN {}
    ELSE UNION { UNION {
            IF ~Includes(HttpMethods, e.key) \/ e.value = Null THEN {}
            ELSE (IF "parameters" \in DOMAIN e.value
                  THEN {q.schema : q \in {r \in Range(e.value.parameters) :
                                             "schema" \in DOMAIN r}}
                  ELSE {})
                 \cup
                 (IF /\ "requestBody" \in DOMAIN e.value
                     /\ "content" \in DOMAIN e.value.requestBody
                     /\ e.value.requestBody.content # <<>>
                     /\ "schema" \in DOMAIN e.value.requestBody.content[1].value
                  THEN {e.value.requestBody.content[1].value.schema}
                  ELSE {})
            : e \in Range(p.item) } : p \in Range(doc.paths) }

\* whether walking the document through the segments of a reference finds
\* every segment among the keys of the object reached
RECURSIVE TargetExists(_, _)
TargetExists(obj, segments) ==
    \/ segments = <<>>
    \/ /\ Head(segments) \in DOMAIN obj
       /\ TargetExists(obj[Head(segments)], Tail(segments))

\* whether a resolved fragment holds no reference any more
RECURSIVE FullyResolved(_)
FullyResolved(schema) ==
    /\ ~IsThrown(schema)
    /\ "$ref" \notin DOMAIN schema
    /\ "items" \in DOMAIN schema => FullyResolved(schema.items)
    /\ "properties" \in DOMAIN schema =>
          \A n \in DOMAIN schema.properties : FullyResolved(schema.properties[n])

\* C9: a reference whose target is missing is replaced by {type: "object",
\* description: "Reference not found: <ref>"}, extraction still returns its
\* tools, and every reference whose target exists is replaced by its fully
\* resolved target.
C9_MissingReferenceNeverFails ==
    extracted.state = "done" =>
        \A f \in {g \in Fragments : "$ref" \in DOMAIN g} :
            IF TargetExists(doc, Tail(f["$ref"]))
            THEN FullyResolved(resolveReferences(f, doc))
            ELSE /\ resolveReferences(f, doc) = ReferenceNotFound(f["$ref"])
                 /\ ~IsThrown(extracted.result)

\* C10: the `required` list of the flattened input schema holds each field
\* name at most once.
C10_RequiredHasNoDuplicates ==
    \A t \in Range(ExtractedTools) :
        "required" \in DOMAIN t.inputSchema =>
            \A i, j \in 1..Len(t.inputSchema.required) :
                i # j => t.inputSchema.required[i] # t.inputSchema.required[j]

\* the body-tagged fields fetchTool collects: those the argument mapping has
BodyFields ==
    [n \in {m \in DOMAIN call.tool.inputSchema.properties :
                /\ In(m, call.params)
                /\ call.tool.inputSchema.properties[m].paramType = ParamType.Body}
        |-> Get(call.params, n)]

\* C8: a request for a GET or DELETE tool has no body, whatever body-tagged
\* fields the arguments supply; for every other method the body is the JSON
\* serialization of the collected body-tagged fields.
C8_NoBodyOnGetOrDelete ==
    outcome.state = "fetched" =>
        IF call.tool.method \in {"GET", "DELETE"}
        THEN "body" \notin DOMAIN outcome.request.init
        ELSE /\ "body" \in DOMAIN outcome.request.init
             /\ outcome.request.init.body = JSONStringify(BodyFields)

\* C8 witness: a DELETE tool was called with a body-tagged field supplied and
\* the request went out.
C8_DeleteWithBodyFieldSupplied ==
    /\ outcome.state = "fetched"
    /\ call.tool.method = "DELETE"
    /\ \E n \in DOMAIN call.params :
         call.tool.inputSchema.properties[n].paramType = ParamType.Body

=============================================================================
